---- MODULE Spec2Model ----
(***************************************************************************)
(* Model of the scheduled dispatch endpoint of kana-dojo:                   *)
(*   POST /api/trigger-community-issue   (src/unnamed/part_000)             *)
(* followed, further down, by the ConjugatorInput and ConjugationResults    *)
(* components, each under a specification of its own (InputSpec,            *)
(* ResultsSpec) in which the other parts stay at rest.                      *)
(*                                                                          *)
(* One handler invocation at a time is followed from the receipt of the     *)
(* request to the returned response.  The handler is an async function: it  *)
(* runs synchronously up to `await fetch(...)`, is resumed when the fetch   *)
(* settles, and (on a non-ok upstream answer) suspends once more on         *)
(* `await response.text()`.  Every statement group of the source is one     *)
(* action; the program counter pc names the source line the handler is at.  *)
(*                                                                          *)
(* JavaScript values that may be undefined/null are records                 *)
(* [present, value]; optional locals are sequences of length 0 or 1.        *)
(***************************************************************************)
EXTENDS Integers, Sequences, FiniteSets, TLC

\* ------------------------------------------------------------------ bounds

\* Granularity of the model's clock, in milliseconds per Tick.
TickMs == 2000

\* ------------------------------------------------------- program constants

WORKFLOW_FILE == "hourly-community-issue.yml"
REPO_OWNER == "lingdojo"
REPO_NAME == "kana-dojo"
GITHUB_DISPATCH_TIMEOUT_MS == 8000

\* ----------------------------------------------------------- input domains

\* process.env.X is undefined when the variable is not set.
JsUndefined == [present |-> FALSE, value |-> ""]
\* request.headers.get(name) is null when the header is absent.
JsNull == [present |-> FALSE, value |-> ""]
Str(s) == [present |-> TRUE, value |-> s]

\* Secret strings the environment may hold.  "tok" and "TOK" differ only in
\* case, so the exact header of one is the case-mismatched header of the other.
SecretValues == {"tok", "TOK"}

\* Values of CRON_SECRET and GITHUB_PAT: unset, set to the empty string, or set.
EnvValues == {JsUndefined, Str("")} \cup {Str(s) : s \in SecretValues}
PatValues == {JsUndefined, Str(""), Str("ghp_1")}

\* Values the handler may get from request.headers.get('authorization'):
\* absent, the exact bearer string, and near misses (scheme in another case,
\* whitespace padding inside and around, the bare secret, no secret, empty).
HeaderValues ==
    {JsNull, Str(""), Str("Bearer"), Str("Bearer ")}
        \cup {Str("Bearer " \o s) : s \in SecretValues}
        \cup {Str("bearer " \o s) : s \in SecretValues}
        \cup {Str("Bearer  " \o s) : s \in SecretValues}
        \cup {Str("Bearer " \o s \o " ") : s \in SecretValues}
        \cup {Str(" Bearer " \o s) : s \in SecretValues}
        \cup {Str(s) : s \in SecretValues}

\* `response.ok` is true for statuses 200..299.
UpstreamStatuses == {200, 204, 299, 300, 404, 422, 500}
UpstreamBodies == {"", "{\"message\":\"Not Found\"}"}

\* Values a rejected fetch may carry.  `text` is String(value).
NetworkError ==
    [isError |-> TRUE, message |-> "fetch failed", text |-> "TypeError: fetch failed"]
TimeoutError ==
    [isError |-> TRUE, message |-> "The operation was aborted due to timeout",
     text |-> "TimeoutError: The operation was aborted due to timeout"]
NonErrorThrown ==
    [isError |-> FALSE, message |-> "", text |-> "ECONNRESET"]
TransportFailures == {NetworkError, NonErrorThrown}

\* ------------------------------------------------------------------- state

VARIABLES
    env,        \* process.env: [CRON_SECRET, GITHUB_PAT]
    request,    \* the inbound request's Authorization header value
    pc,         \* position of the handler
    authHeader, \* local authHeader: <<>> until line 30 has run
    outbound,   \* outbound fetch calls issued by this invocation
    elapsed,    \* ms since the outbound call was issued
    response,   \* local response: <<>> until the fetch resolved
    thrown,     \* value caught by the catch clause: <<>> if none
    detail,     \* local detail (catch block)
    body,       \* local body: <<>> until response.text() settled
    textFailed, \* response.text() rejected
    logged,     \* console.error lines of this invocation
    responses   \* responses returned by this invocation

\* ConjugatorInput (src/features/Conjugator/components/ConjugatorInput.tsx):
\* the props the parent passes and the last event the component handled.
VARIABLES
    value,      \* prop value, a sequence of characters
    isLoading,  \* prop isLoading
    inputEvent  \* last event: its kind, the props it saw, the callbacks it called

\* ConjugationResults (src/features/Conjugator/components/ConjugationResults.tsx).
VARIABLES
    result,            \* prop result: "null" or a result's identity
    resultsLoading,    \* prop isLoading
    copiedAll,         \* state copiedAll
    statusMessage,     \* state statusMessage
    previousResultRef, \* previousResultRef.current
    timers,            \* pending setTimeout callbacks: ms left, oldest first
    copyAllCalls       \* calls made to the onCopyAll prop

postVars == <<env, request, pc, authHeader, outbound, elapsed, response,
              thrown, detail, body, textFailed, logged, responses>>
inputVars == <<value, isLoading, inputEvent>>
resultsVars == <<result, resultsLoading, copiedAll, statusMessage,
                 previousResultRef, timers, copyAllCalls>>

vars == <<env, request, pc, authHeader, outbound, elapsed, response, thrown,
          detail, body, textFailed, logged, responses, inputVars, resultsVars>>

\* The state of the two components when mounted and untouched.
InputMounted ==
    /\ value = <<>>
    /\ isLoading = FALSE
    /\ inputEvent = [kind |-> "mount", key |-> "", value |-> <<>>,
                     isLoading |-> FALSE, calls |-> <<>>, prevented |-> FALSE]
ResultsMounted ==
    /\ result = "null"
    /\ resultsLoading = FALSE
    /\ copiedAll = FALSE
    /\ statusMessage = ""
    /\ previousResultRef = "null"
    /\ timers = <<>>
    /\ copyAllCalls = 0

\* ---------------------------------------------------------------- helpers

\* Variant: a test against undefined only, which lets the empty string pass.
IsFalsyUndefinedOnly(v) == ~v.present

\* `!cronSecret`, `!githubPat`: undefined and the empty string are falsy.
IsFalsy(v) == ~v.present \/ v.value = ""

\* The template literal `Bearer ${cronSecret}`.
BearerOf(secret) == "Bearer " \o secret

\* Variant: the header is trimmed before it is compared.
HeaderMismatchTrimmed(h, secret) ==
    \/ ~h.present
    \/ h.value \notin {"Bearer " \o secret,
                       "Bearer " \o secret \o " ",
                       " Bearer " \o secret}

\* `authHeader !== `Bearer ${cronSecret}``: strict inequality, null never equal.
HeaderMismatch(h, secret) == ~h.present \/ h.value # BearerOf(secret)

\* NextResponse.json(body, { status }).
JsonResponse(b, status) == [status |-> status, body |-> b]

CronNotConfiguredBody == [error |-> "Cron not configured"]
UnauthorizedBody == [error |-> "Unauthorized"]
\* Variant: the message of the CRON_SECRET branch, copied.
PatNotConfiguredBodyCopied == [error |-> "Cron not configured"]
PatNotConfiguredBody == [error |-> "GITHUB_PAT not configured"]
DispatchFailedBody(d) == [error |-> "GitHub dispatch request failed", detail |-> d]
\* Variant: the upstream body is dropped from the response.
ApiErrorBodyNoEcho(status, b) ==
    [error |-> "GitHub API error", githubStatus |-> status, githubBody |-> ""]
ApiErrorBody(status, b) ==
    [error |-> "GitHub API error", githubStatus |-> status, githubBody |-> b]
OkBody == [ok |-> TRUE]

\* The dispatch URL of line 41.
DispatchUrl ==
    "https://api.github.com/repos/" \o REPO_OWNER \o "/" \o REPO_NAME
        \o "/actions/workflows/" \o WORKFLOW_FILE \o "/dispatches"

\* The fetch call of lines 45-55.
DispatchRequest(pat) ==
    [url |-> DispatchUrl,
     method |-> "POST",
     authorization |-> "Bearer " \o pat,
     accept |-> "application/vnd.github+json",
     apiVersion |-> "2022-11-28",
     contentType |-> "application/json",
     body |-> "{\"ref\":\"main\"}",
     timeoutMs |-> GITHUB_DISPATCH_TIMEOUT_MS]

\* Variant: String(error) for every thrown value.
ErrorDetailString(e) == e.text

\* `error instanceof Error ? error.message : String(error)`.
ErrorDetail(e) == IF e.isError THEN e.message ELSE e.text

\* Variant: only 200 counts as success.
ResponseOk200Only(r) == r.status = 200

\* `response.ok`.
ResponseOk(r) == r.status >= 200 /\ r.status <= 299

DispatchFailedLine(d) ==
    "[trigger-community-issue] GitHub dispatch request failed: " \o d
ApiErrorLine(status, b) ==
    "[trigger-community-issue] GitHub API error " \o ToString(status) \o ": " \o b

\* Variant: response.text() is awaited without its .catch.
RejectTargetNoTextCatch(p) ==
    IF p = "awaitFetch" THEN "L57" ELSE "fault"

\* Where a rejected await resumes the handler: the fetch is awaited inside
\* try { } catch (lines 44-56), response.text() carries .catch(() => '')
\* (line 66); a rejection anywhere else would leave the handler uncaught.
RejectTarget(p) ==
    IF p = "awaitFetch" THEN "L57"
    ELSE IF p = "awaitText" THEN "L67"
    ELSE "fault"

\* The AbortSignal.timeout(GITHUB_DISPATCH_TIMEOUT_MS) of line 54 has fired.
TimedOut == elapsed >= GITHUB_DISPATCH_TIMEOUT_MS

\* `return NextResponse.json(b, { status })`.
Return(b, status) ==
    /\ responses' = Append(responses, JsonResponse(b, status))
    /\ pc' = "done"

\* ------------------------------------------------------------------ actions

Init ==
    /\ env \in [CRON_SECRET : EnvValues, GITHUB_PAT : PatValues]
    /\ request = JsNull
    /\ pc = "idle"
    /\ authHeader = <<>>
    /\ outbound = <<>>
    /\ elapsed = 0
    /\ response = <<>>
    /\ thrown = <<>>
    /\ detail = ""
    /\ body = <<>>
    /\ textFailed = FALSE
    /\ logged = <<>>
    /\ responses = <<>>
    /\ InputMounted
    /\ ResultsMounted

\* The platform calls POST(request): a fresh invocation, nothing carried over.
Receive(h) ==
    /\ pc \in {"idle", "done", "fault"}
    /\ request' = h
    /\ pc' = "L24"
    /\ authHeader' = <<>>
    /\ outbound' = <<>>
    /\ elapsed' = 0
    /\ response' = <<>>
    /\ thrown' = <<>>
    /\ detail' = ""
    /\ body' = <<>>
    /\ textFailed' = FALSE
    /\ logged' = <<>>
    /\ responses' = <<>>
    /\ UNCHANGED env
    /\ UNCHANGED <<inputVars, resultsVars>>

\* Variant: the Authorization header is read before CRON_SECRET is checked.
CheckCronSecretAfterHeader ==
    /\ pc = "L24"
    /\ authHeader' = <<request>>
    /\ IF ~env.CRON_SECRET.present \/ env.CRON_SECRET.value = ""
          THEN Return(CronNotConfiguredBody, 500)
          ELSE pc' = "L30" /\ UNCHANGED responses
    /\ UNCHANGED <<env, request, outbound, elapsed, response, thrown, detail,
                   body, textFailed, logged>>
    /\ UNCHANGED <<inputVars, resultsVars>>

\* Lines 24-28.
CheckCronSecret ==
    /\ pc = "L24"
    /\ IF IsFalsy(env.CRON_SECRET)
          THEN Return(CronNotConfiguredBody, 500)
          ELSE pc' = "L30" /\ UNCHANGED responses
    /\ UNCHANGED <<env, request, authHeader, outbound, elapsed, response,
                   thrown, detail, body, textFailed, logged>>
    /\ UNCHANGED <<inputVars, resultsVars>>

\* Lines 30-33.
CheckAuthorization ==
    /\ pc = "L30"
    /\ authHeader' = <<request>>
    /\ IF HeaderMismatch(request, env.CRON_SECRET.value)
          THEN Return(UnauthorizedBody, 401)
          ELSE pc' = "L35" /\ UNCHANGED responses
    /\ UNCHANGED <<env, request, outbound, elapsed, response, thrown, detail,
                   body, textFailed, logged>>
    /\ UNCHANGED <<inputVars, resultsVars>>

\* Variant: the GITHUB_PAT check is left out.
CheckGithubPatSkipped ==
    /\ pc = "L35"
    /\ pc' = "L41"
    /\ UNCHANGED <<env, request, authHeader, outbound, elapsed, response,
                   thrown, detail, body, textFailed, logged, responses>>
    /\ UNCHANGED <<inputVars, resultsVars>>

\* Lines 35-39.
CheckGithubPat ==
    /\ pc = "L35"
    /\ IF IsFalsy(env.GITHUB_PAT)
          THEN Return(PatNotConfiguredBody, 500)
          ELSE pc' = "L41" /\ UNCHANGED responses
    /\ UNCHANGED <<env, request, authHeader, outbound, elapsed, response,
                   thrown, detail, body, textFailed, logged>>
    /\ UNCHANGED <<inputVars, resultsVars>>

\* Variant: the dispatch is sent a second time.
IssueFetchTwice ==
    /\ pc = "L41"
    /\ outbound' = outbound \o <<DispatchRequest(env.GITHUB_PAT.value),
                                  DispatchRequest(env.GITHUB_PAT.value)>>
    /\ elapsed' = 0
    /\ pc' = "awaitFetch"
    /\ UNCHANGED <<env, request, authHeader, response, thrown, detail, body,
                   textFailed, logged, responses>>
    /\ UNCHANGED <<inputVars, resultsVars>>

\* Lines 41-55: the fetch is issued and the handler suspends on it.
IssueFetch ==
    /\ pc = "L41"
    /\ outbound' = Append(outbound, DispatchRequest(env.GITHUB_PAT.value))
    /\ elapsed' = 0
    /\ pc' = "awaitFetch"
    /\ UNCHANGED <<env, request, authHeader, response, thrown, detail, body,
                   textFailed, logged, responses>>
    /\ UNCHANGED <<inputVars, resultsVars>>

\* Time passes while the handler is suspended on the outbound call.
Tick ==
    /\ pc \in {"awaitFetch", "awaitText"}
    /\ ~TimedOut
    /\ elapsed' = elapsed + TickMs
    /\ UNCHANGED <<env, request, pc, authHeader, outbound, response, thrown,
                   detail, body, textFailed, logged, responses>>
    /\ UNCHANGED <<inputVars, resultsVars>>

\* The upstream answers before the timeout: the await of line 45 resolves.
FetchResolve(status, text) ==
    /\ pc = "awaitFetch"
    /\ ~TimedOut
    /\ response' = <<[status |-> status, body |-> text]>>
    /\ pc' = "L65"
    /\ UNCHANGED <<env, request, authHeader, outbound, elapsed, thrown,
                   detail, body, textFailed, logged, responses>>
    /\ UNCHANGED <<inputVars, resultsVars>>

\* The outbound call fails in transport: the await of line 45 rejects.
FetchReject(e) ==
    /\ pc = "awaitFetch"
    /\ thrown' = <<e>>
    /\ pc' = RejectTarget(pc)
    /\ UNCHANGED <<env, request, authHeader, outbound, elapsed, response,
                   detail, body, textFailed, logged, responses>>
    /\ UNCHANGED <<inputVars, resultsVars>>

\* The timeout signal of line 54 aborts the in-flight call.
FetchAbort ==
    /\ pc = "awaitFetch"
    /\ TimedOut
    /\ thrown' = <<TimeoutError>>
    /\ pc' = RejectTarget(pc)
    /\ UNCHANGED <<env, request, authHeader, outbound, elapsed, response,
                   detail, body, textFailed, logged, responses>>
    /\ UNCHANGED <<inputVars, resultsVars>>

\* Variant: the catch clause computes detail without logging it.
CatchNoLog ==
    /\ pc = "L57"
    /\ detail' = IF thrown[1].isError THEN thrown[1].message ELSE thrown[1].text
    /\ pc' = "L59"
    /\ UNCHANGED <<env, request, authHeader, outbound, elapsed, response,
                   thrown, body, textFailed, logged, responses>>
    /\ UNCHANGED <<inputVars, resultsVars>>

\* Lines 56-58: the catch clause computes detail and logs it.
CatchLog ==
    /\ pc = "L57"
    /\ detail' = ErrorDetail(thrown[1])
    /\ logged' = Append(logged, DispatchFailedLine(ErrorDetail(thrown[1])))
    /\ pc' = "L59"
    /\ UNCHANGED <<env, request, authHeader, outbound, elapsed, response,
                   thrown, body, textFailed, responses>>
    /\ UNCHANGED <<inputVars, resultsVars>>

\* Lines 59-62.
CatchReturn ==
    /\ pc = "L59"
    /\ Return(DispatchFailedBody(detail), 504)
    /\ UNCHANGED <<env, request, authHeader, outbound, elapsed, response,
                   thrown, detail, body, textFailed, logged>>
    /\ UNCHANGED <<inputVars, resultsVars>>

\* Lines 65-66: on a non-ok answer response.text() is called and awaited.
CheckOk ==
    /\ pc = "L65"
    /\ pc' = IF ~ResponseOk(response[1]) THEN "awaitText" ELSE "L74"
    /\ UNCHANGED <<env, request, authHeader, outbound, elapsed, response,
                   thrown, detail, body, textFailed, logged, responses>>
    /\ UNCHANGED <<inputVars, resultsVars>>

\* The upstream body arrives: response.text() resolves with the raw text.
TextResolve ==
    /\ pc = "awaitText"
    /\ ~TimedOut
    /\ body' = <<response[1].body>>
    /\ pc' = "L67"
    /\ UNCHANGED <<env, request, authHeader, outbound, elapsed, response,
                   thrown, detail, textFailed, logged, responses>>
    /\ UNCHANGED <<inputVars, resultsVars>>

\* Reading the body fails: .catch(() => '') substitutes the empty string.
TextReject ==
    /\ pc = "awaitText"
    /\ textFailed' = TRUE
    /\ body' = IF RejectTarget(pc) = "L67" THEN <<"">> ELSE body
    /\ pc' = RejectTarget(pc)
    /\ UNCHANGED <<env, request, authHeader, outbound, elapsed, response,
                   thrown, detail, logged, responses>>
    /\ UNCHANGED <<inputVars, resultsVars>>

\* The timeout signal fires while the body is still being read: the body
\* stream errors and response.text() rejects.
TextAbort ==
    /\ pc = "awaitText"
    /\ TimedOut
    /\ textFailed' = TRUE
    /\ body' = IF RejectTarget(pc) = "L67" THEN <<"">> ELSE body
    /\ pc' = RejectTarget(pc)
    /\ UNCHANGED <<env, request, authHeader, outbound, elapsed, response,
                   thrown, detail, logged, responses>>
    /\ UNCHANGED <<inputVars, resultsVars>>

\* Line 67.
LogApiError ==
    /\ pc = "L67"
    /\ logged' = Append(logged, ApiErrorLine(response[1].status, body[1]))
    /\ pc' = "L68"
    /\ UNCHANGED <<env, request, authHeader, outbound, elapsed, response,
                   thrown, detail, body, textFailed, responses>>
    /\ UNCHANGED <<inputVars, resultsVars>>

\* Lines 68-71.
ReturnApiError ==
    /\ pc = "L68"
    /\ Return(ApiErrorBody(response[1].status, body[1]), 502)
    /\ UNCHANGED <<env, request, authHeader, outbound, elapsed, response,
                   thrown, detail, body, textFailed, logged>>
    /\ UNCHANGED <<inputVars, resultsVars>>

\* Line 74.
ReturnOk ==
    /\ pc = "L74"
    /\ Return(OkBody, 200)
    /\ UNCHANGED <<env, request, authHeader, outbound, elapsed, response,
                   thrown, detail, body, textFailed, logged>>
    /\ UNCHANGED <<inputVars, resultsVars>>

Next ==
    \/ \E h \in HeaderValues : Receive(h)
    \/ CheckCronSecret
    \/ CheckAuthorization
    \/ CheckGithubPat
    \/ IssueFetch
    \/ Tick
    \/ \E status \in UpstreamStatuses, text \in UpstreamBodies :
          FetchResolve(status, text)
    \/ \E e \in TransportFailures : FetchReject(e)
    \/ FetchAbort
    \/ CatchLog
    \/ CatchReturn
    \/ CheckOk
    \/ TextResolve
    \/ TextReject
    \/ TextAbort
    \/ LogApiError
    \/ ReturnApiError
    \/ ReturnOk

Spec == Init /\ [][Next]_vars

\* The handler's own steps always run once enabled (the event loop resumes a
\* settled await), the clock advances, and the timeout signal fires when due.
\* No fairness is assumed of new requests, of the upstream answering, or of
\* transport failures.
HandlerStep ==
    \/ CheckCronSecret \/ CheckAuthorization \/ CheckGithubPat \/ IssueFetch
    \/ CatchLog \/ CatchReturn \/ CheckOk \/ LogApiError \/ ReturnApiError
    \/ ReturnOk

FairSpec ==
    /\ Spec
    /\ WF_vars(HandlerStep)
    /\ WF_vars(Tick)
    /\ WF_vars(FetchAbort)
    /\ WF_vars(TextAbort)

\* ------------------------------------------------------------- properties

\* The facts of an invocation, stated on the environment and the request
\* independently of the handler's own helpers.
CronConfigured == env.CRON_SECRET.present /\ env.CRON_SECRET.value # ""
PatConfigured == env.GITHUB_PAT.present /\ env.GITHUB_PAT.value # ""
HeaderExact ==
    /\ request.present
    /\ request.value = "Bearer " \o env.CRON_SECRET.value
UpstreamSuccess ==
    /\ response # <<>>
    /\ response[1].status \in 200..299
Done == pc = "done"
Responded(status) ==
    /\ Len(responses) = 1
    /\ responses[1].status = status

\* C1: with CRON_SECRET configured, an invocation whose Authorization header
\* is absent or is not exactly "Bearer <secret>" ends with a 401 response,
\* whatever GITHUB_PAT holds.
C1_MismatchIs401 ==
    (Done /\ CronConfigured /\ ~HeaderExact)
        => /\ Responded(401)
           /\ responses[1].body = [error |-> "Unauthorized"]

\* A finished invocation whose header differs from the configured secret's
\* bearer string only by trailing whitespace, with GITHUB_PAT unset.
C1_Witness ==
    /\ Done
    /\ env.CRON_SECRET = Str("tok")
    /\ ~env.GITHUB_PAT.present
    /\ request = Str("Bearer tok ")
    /\ Responded(401)

\* C2: with CRON_SECRET unset (or empty) the invocation ends with 500 and
\* the message 'Cron not configured' for every Authorization header, and the
\* header has not been read when it does.
C2_CronUnsetIs500 ==
    (Done /\ ~CronConfigured)
        => /\ Responded(500)
           /\ responses[1].body = [error |-> "Cron not configured"]
           /\ authHeader = <<>>

\* A finished invocation with CRON_SECRET undefined whose header would have
\* matched a configured secret.
C2_Witness ==
    /\ Done
    /\ ~env.CRON_SECRET.present
    /\ request = Str("Bearer tok")
    /\ Responded(500)

\* C3: with a matching Authorization header and GITHUB_PAT unset the
\* invocation ends with 500 and the message 'GITHUB_PAT not configured',
\* which is not the message of the CRON_SECRET-unset response.
C3_PatUnsetIs500 ==
    (Done /\ CronConfigured /\ HeaderExact /\ ~PatConfigured)
        => /\ Responded(500)
           /\ responses[1].body = [error |-> "GITHUB_PAT not configured"]
           /\ responses[1].body.error # "Cron not configured"

\* A finished, authorized invocation with GITHUB_PAT undefined.
C3_Witness ==
    /\ Done
    /\ CronConfigured
    /\ HeaderExact
    /\ ~env.GITHUB_PAT.present
    /\ Responded(500)

\* C4 as written: whenever CRON_SECRET or GITHUB_PAT is missing, the status
\* is 500.
C4_Original ==
    (Done /\ (~CronConfigured \/ ~PatConfigured)) => Responded(500)

\* C4 amended: a missing CRON_SECRET always gives 500; a missing GITHUB_PAT
\* gives 500 when the Authorization header matches the configured secret,
\* and 401 when it does not.
C4_MissingConfig ==
    /\ (Done /\ ~CronConfigured) => Responded(500)
    /\ (Done /\ CronConfigured /\ HeaderExact /\ ~PatConfigured)
          => Responded(500)
    /\ (Done /\ CronConfigured /\ ~HeaderExact /\ ~PatConfigured)
          => Responded(401)

\* A finished, authorized invocation with GITHUB_PAT set to the empty string.
C4_Witness ==
    /\ Done
    /\ CronConfigured
    /\ HeaderExact
    /\ env.GITHUB_PAT = Str("")
    /\ Responded(500)

\* C5 as written: every finished invocation has issued exactly one outbound
\* call.
C5_Original == Done => Len(outbound) = 1

\* C5 amended: an invocation never issues more than one outbound call; it
\* has issued exactly one when it ends with 200, 502 or 504 and none when it
\* ends with 401 or 500.
C5_AtMostOneCall ==
    /\ Len(outbound) <= 1
    /\ Done =>
          /\ responses[1].status \in {200, 502, 504} => Len(outbound) = 1
          /\ responses[1].status \in {401, 500} => Len(outbound) = 0

\* A finished invocation whose one outbound call failed in transport.
C5_Witness ==
    /\ Done
    /\ Responded(504)
    /\ Len(outbound) = 1

\* C6: when the outbound call throws (transport failure or timeout abort)
\* the invocation ends with 504 and a body of exactly 'error' and 'detail',
\* detail being the thrown error's message (String(value) for a thrown
\* non-Error value); it never ends with 502 or 200.
C6_ThrowIs504 ==
    (Done /\ thrown # <<>>)
        => /\ Responded(504)
           /\ DOMAIN responses[1].body = {"error", "detail"}
           /\ responses[1].body.error = "GitHub dispatch request failed"
           /\ thrown[1].isError
                 => responses[1].body.detail = thrown[1].message
           /\ ~thrown[1].isError
                 => responses[1].body.detail = thrown[1].text

\* A finished invocation whose outbound call was aborted by the timeout.
C6_Witness ==
    /\ Done
    /\ thrown = <<TimeoutError>>
    /\ elapsed >= 8000
    /\ Responded(504)
    /\ responses[1].body.detail = "The operation was aborted due to timeout"

\* C7: when the outbound call completes with a non-success status the
\* invocation ends with 502, githubStatus is the upstream status and
\* githubBody the raw upstream body, or the empty string if reading the
\* body failed.
C7_UpstreamErrorIs502 ==
    (Done /\ response # <<>> /\ ~UpstreamSuccess)
        => /\ Responded(502)
           /\ DOMAIN responses[1].body = {"error", "githubStatus", "githubBody"}
           /\ responses[1].body.githubStatus = response[1].status
           /\ responses[1].body.githubBody =
                 IF textFailed THEN "" ELSE response[1].body

\* A finished invocation whose upstream answered 404 with a body.
C7_Witness ==
    /\ Done
    /\ response # <<>>
    /\ response[1].status = 404
    /\ response[1].body # ""
    /\ ~textFailed
    /\ Responded(502)
    /\ responses[1].body.githubBody = response[1].body

\* C8: an invocation ends with 200 and { ok: true } exactly when CRON_SECRET
\* is configured, the header matches it, GITHUB_PAT is configured and the
\* outbound call completed with a success status.
C8_OkIff ==
    Done =>
        ((Responded(200) /\ responses[1].body = [ok |-> TRUE])
            <=> (CronConfigured /\ HeaderExact /\ PatConfigured
                    /\ UpstreamSuccess))

\* A finished invocation whose upstream answered 204.
C8_Witness ==
    /\ Done
    /\ response # <<>>
    /\ response[1].status = 204
    /\ Responded(200)

C10_Terminates ==
    /\ [](/\ pc # "fault"
          /\ Len(responses) <= 1
          /\ Len(responses) = 1 <=> Done
          /\ Done => responses[1].status \in {200, 401, 500, 502, 504})
    /\ [](pc # "idle" => <>Done)

\* A finished invocation whose upstream body could not be read.
C10_Witness ==
    /\ Done
    /\ textFailed
    /\ Responded(502)

\* C12: an outbound dispatch request has been issued only in an invocation
\* in which CRON_SECRET is configured, the Authorization header is exactly
\* "Bearer <CRON_SECRET>" and GITHUB_PAT is configured, and it carries that
\* token; an invocation that ended with 401 or 500 has issued none.
C12_DispatchOnlyWhenAuthorized ==
    /\ outbound # <<>> =>
          /\ CronConfigured
          /\ HeaderExact
          /\ PatConfigured
          /\ \A i \in 1..Len(outbound) :
                outbound[i].authorization = "Bearer " \o env.GITHUB_PAT.value
    /\ (Len(responses) = 1 /\ responses[1].status \in {401, 500})
          => outbound = <<>>

\* The handler suspended on the one dispatch request it has just issued.
C12_Witness ==
    /\ pc = "awaitFetch"
    /\ Len(outbound) = 1
    /\ outbound[1].url =
          "https://api.github.com/repos/lingdojo/kana-dojo/actions/workflows/hourly-community-issue.yml/dispatches"
    /\ responses = <<>>

\* ========================================================= ConjugatorInput
\* src/features/Conjugator/components/ConjugatorInput.tsx.  The component is
\* controlled: value and isLoading are props, changed only by the parent's
\* render; each handler is followed to the prop callbacks it calls.

\* Longest input value considered.
MaxLen == 2

\* Characters of an input value: a kana, the ASCII space and the ideographic
\* space U+3000 (both are white space to String.prototype.trim).
Chars == {"ta", " ", "u3000"}
WhiteSpace == {" ", "u3000"}
InputValues == UNION {[1..n -> Chars] : n \in 0..MaxLen}
Keys == {"Enter", "Escape", "a"}

RECURSIVE TrimStart(_)
TrimStart(s) ==
    IF s # <<>> /\ Head(s) \in WhiteSpace THEN TrimStart(Tail(s)) ELSE s

RECURSIVE TrimEnd(_)
TrimEnd(s) ==
    IF s # <<>> /\ s[Len(s)] \in WhiteSpace
        THEN TrimEnd(SubSeq(s, 1, Len(s) - 1))
        ELSE s

\* value.trim().
Trim(s) == TrimEnd(TrimStart(s))

\* Line 42.
IsDisabled(l) == l

\* Variant: the value is tested without trimming.
CanConjugateNoTrim(v, l) == Len(v) > 0 /\ ~l

\* Line 43.
CanConjugate(v, l) == Len(Trim(v)) > 0 /\ ~l

OnConjugateCall == [fn |-> "onConjugate", arg |-> <<>>]
OnChangeCall(v) == [fn |-> "onChange", arg |-> v]

\* The prop callbacks handleKeyDown calls (lines 46-61).
HandleKeyDownCalls(key, v, l) ==
    IF key = "Enter"
        THEN IF CanConjugate(v, l) THEN <<OnConjugateCall>> ELSE <<>>
    ELSE IF key = "Escape"
        THEN IF Len(v) > 0 THEN <<OnChangeCall(<<>>)>> ELSE <<>>
    ELSE <<>>

\* e.preventDefault() is called for Enter and Escape only.
HandleKeyDownPrevents(key) == key \in {"Enter", "Escape"}

\* The Conjugate button's disabled attribute (line 173).
ButtonDisabled == ~CanConjugate(value, isLoading)

\* The clear button is rendered (line 129).
ClearButtonShown == Len(value) > 0 /\ ~IsDisabled(isLoading)

InputEvent(kind, key, calls, prevented) ==
    [kind |-> kind, key |-> key, value |-> value, isLoading |-> isLoading,
     calls |-> calls, prevented |-> prevented]

\* The dispatch endpoint at rest, for the specifications of the components.
PostQuiescent ==
    /\ env = [CRON_SECRET |-> JsUndefined, GITHUB_PAT |-> JsUndefined]
    /\ request = JsNull
    /\ pc = "idle"
    /\ authHeader = <<>>
    /\ outbound = <<>>
    /\ elapsed = 0
    /\ response = <<>>
    /\ thrown = <<>>
    /\ detail = ""
    /\ body = <<>>
    /\ textFailed = FALSE
    /\ logged = <<>>
    /\ responses = <<>>

InputInit ==
    /\ PostQuiescent
    /\ InputMounted
    /\ ResultsMounted

\* The parent renders the component with new props.
InputRender(v, l) ==
    /\ value' = v
    /\ isLoading' = l
    /\ UNCHANGED <<inputEvent, postVars, resultsVars>>

\* A key goes down in the input (handleKeyDown, lines 46-61).
KeyDown(key) ==
    /\ inputEvent' = InputEvent("keydown", key,
                                HandleKeyDownCalls(key, value, isLoading),
                                HandleKeyDownPrevents(key))
    /\ UNCHANGED <<value, isLoading, postVars, resultsVars>>

\* The user edits the text of the enabled input (handleChange, lines 64-69).
Change(v) ==
    /\ ~IsDisabled(isLoading)
    /\ inputEvent' = InputEvent("change", "", <<OnChangeCall(v)>>, FALSE)
    /\ UNCHANGED <<value, isLoading, postVars, resultsVars>>

\* The clear button is clicked (handleClear, lines 72-75).
ClickClear ==
    /\ ClearButtonShown
    /\ inputEvent' = InputEvent("clear", "", <<OnChangeCall(<<>>)>>, FALSE)
    /\ UNCHANGED <<value, isLoading, postVars, resultsVars>>

\* The enabled Conjugate button is clicked (lines 171-173).
ClickConjugate ==
    /\ ~ButtonDisabled
    /\ inputEvent' = InputEvent("conjugate", "", <<OnConjugateCall>>, FALSE)
    /\ UNCHANGED <<value, isLoading, postVars, resultsVars>>

InputNext ==
    \/ \E v \in InputValues, l \in BOOLEAN : InputRender(v, l)
    \/ \E key \in Keys : KeyDown(key)
    \/ \E v \in InputValues : Change(v)
    \/ ClickClear
    \/ ClickConjugate

InputSpec == InputInit /\ [][InputNext]_vars

\* A value has a character that is not white space.
HasVisibleChar(v) == \E i \in 1..Len(v) : v[i] \notin {" ", "u3000"}

\* C11: Enter calls onConjugate exactly when the value is non-empty after
\* trimming and isLoading is false, and calls nothing otherwise; the
\* Conjugate button is disabled in exactly those other states, so onConjugate
\* is never called from them; Escape calls onChange('') exactly when the
\* value is non-empty, and nothing otherwise.
C11_EnterGuard ==
    /\ (inputEvent.kind = "keydown" /\ inputEvent.key = "Enter")
          => inputEvent.calls =
                IF HasVisibleChar(inputEvent.value) /\ ~inputEvent.isLoading
                    THEN <<[fn |-> "onConjugate", arg |-> <<>>]>>
                    ELSE <<>>
    /\ ButtonDisabled <=> ~(HasVisibleChar(value) /\ ~isLoading)
    /\ (\E i \in 1..Len(inputEvent.calls) :
            inputEvent.calls[i].fn = "onConjugate")
          => HasVisibleChar(inputEvent.value) /\ ~inputEvent.isLoading
    /\ (inputEvent.kind = "keydown" /\ inputEvent.key = "Escape")
          => inputEvent.calls =
                IF inputEvent.value # <<>>
                    THEN <<[fn |-> "onChange", arg |-> <<>>]>>
                    ELSE <<>>

\* Enter was pressed on a value of white space only, not loading: nothing was
\* called and the button is disabled.
C11_Witness ==
    /\ inputEvent.kind = "keydown"
    /\ inputEvent.key = "Enter"
    /\ inputEvent.value = <<" ", "u3000">>
    /\ ~inputEvent.isLoading
    /\ inputEvent.calls = <<>>
    /\ value = inputEvent.value
    /\ ButtonDisabled

\* ====================================================== ConjugationResults
\* src/features/Conjugator/components/ConjugationResults.tsx: the props
\* result and isLoading, the state copiedAll and statusMessage, and the
\* timers handleCopyAll starts.  No timer is ever cleared.

\* Most clicks on the Copy-All button considered.
MaxClicks == 3

\* Granularity of the component's clock, in milliseconds per step.
ResetTickMs == 1000

\* The delay of the reset timer (line 103).
CopiedResetMs == 2000

\* Identities of the result prop; "null" is no result.
Results == {"null", "r1", "r2"}

CopiedMessage == "All conjugation forms copied to clipboard."
LoadingMessage == "Conjugating verb, please wait..."
\* The completion message of lines 89-91, by the result it names.
CompleteMessage(res) == "Conjugation complete for " \o res

\* The Copy-All button is rendered only past the early returns of lines 107
\* and 127.
CopyAllShown == ~resultsLoading /\ result # "null"

ResultsInit ==
    /\ PostQuiescent
    /\ InputMounted
    /\ ResultsMounted

\* The parent renders with changed props; the effect of lines 87-96 runs.
ResultsRender(res, l) ==
    /\ <<res, l>> # <<result, resultsLoading>>
    /\ result' = res
    /\ resultsLoading' = l
    /\ IF res # "null" /\ res # previousResultRef
          THEN /\ statusMessage' = CompleteMessage(res)
               /\ previousResultRef' = res
          ELSE /\ statusMessage' = IF l THEN LoadingMessage ELSE statusMessage
               /\ UNCHANGED previousResultRef
    /\ UNCHANGED <<copiedAll, timers, copyAllCalls, postVars, inputVars>>

\* The Copy-All button is clicked (handleCopyAll, lines 99-104).
ClickCopyAll ==
    /\ CopyAllShown
    /\ copyAllCalls < MaxClicks
    /\ copyAllCalls' = copyAllCalls + 1
    /\ copiedAll' = TRUE
    /\ statusMessage' = CopiedMessage
    /\ timers' = Append(timers, CopiedResetMs)
    /\ UNCHANGED <<result, resultsLoading, previousResultRef, postVars,
                   inputVars>>

\* Time passes; a timer that is due fires before more time does.
ResultsTick ==
    /\ timers # <<>>
    /\ Head(timers) > 0
    /\ timers' = [i \in 1..Len(timers) |->
                    IF timers[i] > ResetTickMs THEN timers[i] - ResetTickMs
                    ELSE 0]
    /\ UNCHANGED <<result, resultsLoading, copiedAll, statusMessage,
                   previousResultRef, copyAllCalls, postVars, inputVars>>

\* The oldest timer is due: its callback () => setCopiedAll(false) runs
\* (line 103).
TimerFire ==
    /\ timers # <<>>
    /\ Head(timers) = 0
    /\ copiedAll' = FALSE
    /\ timers' = Tail(timers)
    /\ UNCHANGED <<result, resultsLoading, statusMessage, previousResultRef,
                   copyAllCalls, postVars, inputVars>>

ResultsNext ==
    \/ \E res \in Results, l \in BOOLEAN : ResultsRender(res, l)
    \/ ClickCopyAll
    \/ ResultsTick
    \/ TimerFire

ResultsSpec == ResultsInit /\ [][ResultsNext]_vars

\* C13: while a reset timer started by some Copy-All click is pending (its
\* 2000 ms have not yet run out), copiedAll is true; when no timer is
\* pending, copiedAll is false.
C13_CopiedWhilePending ==
    /\ (\E i \in 1..Len(timers) : timers[i] > 0) => copiedAll
    /\ timers = <<>> => ~copiedAll

====
